---- MODULE Spec2Model ----
(***************************************************************************)
(* Model of the statistics pipeline of fantasy_dash (src/app/app.py):      *)
(* the two wide input tables are melted, linked (determine_points_against),*)
(* enriched with the weekly metrics, aggregated by collect_season_stats    *)
(* and re-aggregated by the week-slider callback.                          *)
(*                                                                         *)
(* Numbers.  pandas works on floats; the model keeps them exact:           *)
(*   - a rank is stored doubled (Rank2 = 2 * rank), so x.5 is an integer;  *)
(*   - a rank score rank / N is stored as the numerator over 2 * N         *)
(*     (RankPoints2 = 2 * rank, denominator 2 * num_players);              *)
(*   - a value rounded to one decimal is stored in tenths, a value rounded *)
(*     to two decimals in hundredths.                                      *)
(* A missing value (NaN) is the number NaN below, a missing name is        *)
(* NoName.                                                                 *)
(*                                                                         *)
(* Specifications.                                                         *)
(*   Spec        the start-up script and the season-table callback on      *)
(*               well-formed tables;                                       *)
(*   SpecRoar    remaining_opponent_avg_rank called on its own;            *)
(*   SpecItems   get_matchup_items called on its own;                      *)
(*   SpecServing the three week-driven callbacks, several invocations in   *)
(*               flight at once;                                           *)
(*   SpecGaps    the start-up script and the callbacks on tables with bye  *)
(*               weeks or with player columns that do not match.           *)
(***************************************************************************)
EXTENDS Integers, Sequences, FiniteSets, TLC

\* Bounds of the model.
MaxWeek == 2            \* weeks of the schedule table
NumScores == 2          \* distinct scores in a points table of several weeks
NumScoresOneWeek == 3   \* distinct scores in a points table of a single week
MaxCutoff == 23         \* largest current_week handed to remaining_opponent_avg_rank alone
MaxTenths == 2          \* largest total rank score (in tenths) of a hand-made season row
LateWeeks == 3          \* schedule weeks handed to remaining_opponent_avg_rank alone
MaxItems == 3           \* longest list of items handed to get_matchup_items alone
NumCalls == 2           \* callback invocations that can be in flight together
NumPlotColumns == 2     \* columns offered to update_season_dist_plot

\* Program constants.
CLOSE_MATCH_DIFF == 10

\* Column order of the wide tables (PLAYERS, the non-week columns).
PLAYERS == <<"A", "B", "C", "D">>

PlayerSet == {PLAYERS[i] : i \in 1..Len(PLAYERS)}

\* The names a column header can be, in alphabetical order: the schedule's
\* columns and one name that is no schedule column.
AllNames == PLAYERS \o <<"E">>

NaN == -1
NoName == ""

\* The columns that hold names; the others hold numbers.
NameColumns == {"Player", "Against"}

\* isna(): the row holds no value in the column.
IsMissing(r, col) == IF col \in NameColumns THEN r[col] = NoName ELSE r[col] = NaN

\* The k highest scores 100, 90, 80, ...: ten apart, so that a margin is 0,
\* exactly CLOSE_MATCH_DIFF, or more.
ScoreValues(k) == {100 - 10 * i : i \in 0..(k - 1)}

VARIABLES
    pc,             \* position in the module-level script / serving state
    schedule_wide,  \* wide schedule: one row per week, opp[p] = opponent of p
    points_wide,    \* wide points: one row per week, pts[p] = score of p
    schedule,       \* melted schedule rows [Week, Player, Against]
    points_data,    \* melted points rows [Week, Player, Points]
    points_against, \* result of determine_points_against
    points,         \* the module-level points table (Matchup Facts + metrics)
    current_week,   \* module-level current_week
    season,         \* last result of collect_season_stats: [err, rows]
    roar,           \* last result of remaining_opponent_avg_rank: [err, val]
    cutoff,         \* current_week of the last remaining_opponent_avg_rank call
    week,           \* the week the last callback was called with (0: none yet)
    fig,            \* update_week_points_fig: the bars and their matchup texts
    calls           \* the callback invocations in flight, one per worker

vars == <<pc, schedule_wide, points_wide, schedule, points_data, points_against,
          points, current_week, season, roar, cutoff, week, fig, calls>>

----------------------------------------------------------------------------
\* Generic helpers on sequences.

RECURSIVE SumSeq(_)
SumSeq(s) == IF s = <<>> THEN 0 ELSE Head(s) + SumSeq(Tail(s))

RECURSIVE Concat(_)
Concat(ss) == IF ss = <<>> THEN <<>> ELSE Head(ss) \o Concat(Tail(ss))

Max(S) == CHOOSE x \in S : \A y \in S : y <= x

\* argsort: the indices of keys in ascending order of key, equal keys in index
\* order (insertion sort, which is what numpy runs on arrays this small).
RECURSIVE InsertIndex(_, _, _)
InsertIndex(i, order, keys) ==
    IF order = <<>> THEN <<i>>
    ELSE IF keys[i] < keys[Head(order)] THEN <<i>> \o order
    ELSE <<Head(order)>> \o InsertIndex(i, Tail(order), keys)

RECURSIVE ArgSortUpTo(_, _)
ArgSortUpTo(keys, n) ==
    IF n = 0 THEN <<>> ELSE InsertIndex(n, ArgSortUpTo(keys, n - 1), keys)

ArgSort(keys) == ArgSortUpTo(keys, Len(keys))

----------------------------------------------------------------------------
\* The input tables.

\* A week's pairing: every player faces another player, who faces them back.
Pairings ==
    {f \in [PlayerSet -> PlayerSet] : \A p \in PlayerSet : f[p] # p /\ f[f[p]] = p}


\* Wide tables with weeks 1..n in row order.
ScheduleTables(n) ==
    {[i \in 1..n |-> [Week |-> i, opp |-> f[i]]] : f \in [1..n -> Pairings]}

PointsTables(n, scores) ==
    {[i \in 1..n |-> [Week |-> i, pts |-> f[i]]] :
        f \in [1..n -> [PlayerSet -> scores]]}

\* The points tables of the model: every season of up to n scored weeks over
\* NumScores scores, and every one-week season over NumScoresOneWeek.
PointsInputs(n) ==
    UNION {PointsTables(k, ScoreValues(NumScores)) : k \in 1..n}
    \cup PointsTables(1, ScoreValues(NumScoresOneWeek))

----------------------------------------------------------------------------
\* pd.melt(wide, id_vars=[WEEK_COL], ...): one block of rows per player column,
\* columns in table order, rows in week order inside a block.

melt_schedule(wide, cols) ==
    [k \in 1..(Len(wide) * Len(cols)) |->
        LET n == Len(wide)
            c == cols[((k - 1) \div n) + 1]
            r == wide[((k - 1) % n) + 1]
        IN [Week |-> r.Week, Player |-> c, Against |-> r.opp[c]]]

\* The non-week columns of the wide points table, in table order (the
\* tables name their columns in alphabetical order).
points_columns(wide) ==
    SelectSeq(AllNames, LAMBDA c : c \in DOMAIN wide[1].pts)

melt_points(wide, cols) ==
    [k \in 1..(Len(wide) * Len(cols)) |->
        LET n == Len(wide)
            c == cols[((k - 1) \div n) + 1]
            r == wide[((k - 1) % n) + 1]
        IN [Week |-> r.Week, Player |-> c, Points |-> r.pts[c]]]

----------------------------------------------------------------------------
\* pd.merge(left, right, on=..., how="left"): every left row is kept, in left
\* order; it is paired with each right row that agrees with it on the key
\* columns, in right order, and takes the missing values when none does.
\* A row is a record; l @@ r adds to l the columns of r that l lacks.

\* Mutant: the week left out of the first join's key.
OnPlayerOnly == {"Player"}

\* on=[id_col, player_col]
OnWeekPlayer == {"Week", "Player"}

\* Mutant: the week left out of the second join's key.
OnAgainstOnly == {"Against"}

\* on=[id_col, against_col]
OnWeekAgainst == {"Week", "Against"}

merge_left(left, right, on, missing) ==
    Concat([i \in 1..Len(left) |->
        LET m == SelectSeq(right, LAMBDA r : \A c \in on : r[c] = left[i][c])
        IN IF m = <<>> THEN <<left[i] @@ missing>>
           ELSE [k \in 1..Len(m) |-> left[i] @@ m[k]]])

\* DataFrame.drop([col], axis=1)
drop_column(t, col) ==
    [i \in 1..Len(t) |-> [c \in (DOMAIN t[i]) \ {col} |-> t[i][c]]]

\* determine_points_against: attach the opponent, then the opponent's points.
determine_points_against(pdata, sched) ==
    LET against ==
            drop_column(merge_left(pdata, sched, OnWeekPlayer, [Against |-> NoName]),
                        "Points")
        against_points ==
            [i \in 1..Len(pdata) |->
                [Week |-> pdata[i].Week, Against |-> pdata[i].Player,
                 PointsAgainst |-> pdata[i].Points]]
    IN merge_left(against, against_points, OnWeekAgainst, [PointsAgainst |-> NaN])

\* points = pd.merge(points_data, points_against, how="left", on=[Week, Player])
link_points(pdata, pagainst) ==
    merge_left(pdata, pagainst, {"Week", "Player"},
               [Against |-> NoName, PointsAgainst |-> NaN])

\* points.loc[:, WEEK_COL].max()
max_week(t) == Max({t[i].Week : i \in 1..Len(t)})

----------------------------------------------------------------------------
\* Series.rank(): sort the values, number the positions 1..n, give every value
\* the mean of the positions its equals occupy.  Result doubled.

RECURSIVE SumSet(_)
SumSet(S) == IF S = {} THEN 0
             ELSE LET x == CHOOSE y \in S : TRUE IN x + SumSet(S \ {x})

\* Mutant: rank(method="min"), every tied value takes the lowest position.
MinRank2(vals, i, ascending) ==
    LET keys == IF ascending THEN vals ELSE [k \in 1..Len(vals) |-> 0 - vals[k]]
    IN 2 * (Cardinality({k \in 1..Len(keys) : keys[k] < keys[i]}) + 1)

AvgRank2(vals, i, ascending) ==
    LET keys == IF ascending THEN vals ELSE [k \in 1..Len(vals) |-> 0 - vals[k]]
        order == ArgSort(keys)
        pos == {k \in 1..Len(order) : keys[order[k]] = keys[i]}
    IN (2 * SumSet(pos)) \div Cardinality(pos)

\* t.groupby(by)[col].rank() for row i of table t: the rank of the row's value
\* among the rows of its group that hold a value; NaN when the row holds no
\* value or no group key.
group_rank2(t, i, by, col) ==
    IF IsMissing(t[i], col) \/ IsMissing(t[i], by) THEN NaN
    ELSE LET idx == SelectSeq([j \in 1..Len(t) |-> j],
                              LAMBDA j : t[j][by] = t[i][by] /\ ~IsMissing(t[j], col))
             vals == [k \in 1..Len(idx) |-> t[idx[k]][col]]
             me == CHOOSE k \in 1..Len(idx) : idx[k] = i
         IN AvgRank2(vals, me, TRUE)

\* Mutant: the rank taken over the whole table, the groupby forgotten.
week_rank2_ungrouped(t, i) ==
    AvgRank2([j \in 1..Len(t) |-> t[j].Points], i, TRUE)

\* points.groupby(WEEK_COL)[POINTS_COL].rank()
week_rank2(t, i) == group_rank2(t, i, "Week", "Points")

\* points.groupby(WEEK_COL)["Points Against"].rank()
week_against_rank2(t, i) == group_rank2(t, i, "Week", "PointsAgainst")

\* groupby(WEEK_COL)[col].median() for the week of row i, doubled.
week_median2(t, i) ==
    LET idx == SelectSeq([j \in 1..Len(t) |-> j],
                         LAMBDA j : t[j].Week = t[i].Week /\ t[j].Points # NaN)
        vals == [k \in 1..Len(idx) |-> t[idx[k]].Points]
        order == ArgSort(vals)
        n == Len(vals)
    IN IF n = 0 THEN NaN
       ELSE IF n % 2 = 1 THEN 2 * vals[order[(n + 1) \div 2]]
       ELSE vals[order[n \div 2]] + vals[order[(n \div 2) + 1]]

\* Mutant: the rank divided by one player too few.
rank_scoring_one_short(rank2, num_players) ==
    [num |-> rank2, den |-> 2 * (num_players - 1)]

\* rank_scoring(rank, num_players) = rank / num_players, as a fraction over
\* 2 * num_players with the doubled rank as numerator.
rank_scoring(rank2, num_players) == [num |-> rank2, den |-> 2 * num_players]

\* Mutant: >= for >, a tie counted as a win.
won_or_tied(r) == r.Points # NaN /\ r.PointsAgainst # NaN /\ r.Points >= r.PointsAgainst

\* points["Won"] = Points > Points Against (a comparison with NaN is False)
won(r) == r.Points # NaN /\ r.PointsAgainst # NaN /\ r.Points > r.PointsAgainst

Abs(x) == IF x < 0 THEN 0 - x ELSE x

\* Mutant: < for <=, a margin of exactly CLOSE_MATCH_DIFF not close.
close_match_strict(r) ==
    /\ r.Points # NaN
    /\ r.PointsAgainst # NaN
    /\ Abs(r.Points - r.PointsAgainst) < CLOSE_MATCH_DIFF

\* points["Close Match"] = abs(Points - Points Against) <= CLOSE_MATCH_DIFF
close_match(r) ==
    /\ r.Points # NaN
    /\ r.PointsAgainst # NaN
    /\ Abs(r.Points - r.PointsAgainst) <= CLOSE_MATCH_DIFF

\* The module-level metric columns, lines 347-375.
weekly_metrics(t, players) ==
    [i \in 1..Len(t) |->
        LET r == t[i]
            rank2 == week_rank2(t, i)
            arank2 == week_against_rank2(t, i)
            med2 == week_median2(t, i)
        IN [Week |-> r.Week, Player |-> r.Player, Points |-> r.Points,
            Against |-> r.Against, PointsAgainst |-> r.PointsAgainst,
            Won |-> won(r),
            Rank2 |-> rank2,
            AgainstRank2 |-> arank2,
            RankPoints |-> rank_scoring(rank2, Len(players)),
            RankPointsAgainst |-> rank_scoring(arank2, Len(players)),
            CloseMatch |-> close_match(r),
            CloseLoss |-> (~won(r)) /\ close_match(r),
            CloseWin |-> won(r) /\ close_match(r),
            WeeklyMedian2 |-> med2,
            ExpectedWin |-> r.Points # NaN /\ med2 # NaN /\ 2 * r.Points > med2]]

----------------------------------------------------------------------------
\* Mutant: the quotient truncated.
RoundDown(a, b) == a \div b

\* Rounding.  a / b rounded to the nearest integer, halves to the even one
\* (numpy's rint, which DataFrame.round and round() on a float64 go through
\* after scaling by 10 or 100).
RoundHalfEven(a, b) ==
    LET q == a \div b
        r == a % b
    IN IF 2 * r < b THEN q
       ELSE IF 2 * r > b THEN q + 1
       ELSE IF q % 2 = 0 THEN q ELSE q + 1

\* Alphabetical order of the player names, the order groupby(player_col)
\* returns its groups in.
SortedNames == AllNames

\* remaining_opponent_avg_rank: per season row, the mean over the player's
\* remaining opponents of (opponent's total rank score / current_week),
\* rounded to two decimals (in hundredths); 0 when nothing remains.
\* err names the exception the loop raises at the first row that fails.
\* Mutant: the guard on an empty remaining schedule left out.
roar_row_unguarded(rows, remaining, cw, p) ==
    LET opps == SelectSeq(remaining, LAMBDA r : r.Player = p)
        found(o) == \E i \in 1..Len(rows) : rows[i].Player = o
        rp(o) == rows[CHOOSE i \in 1..Len(rows) :
                        /\ rows[i].Player = o
                        /\ \A j \in 1..(i - 1) : rows[j].Player # o].RankPoints10
    IN IF \E k \in 1..Len(opps) : ~found(opps[k].Against)
            THEN [err |-> "IndexError", val |-> NaN]
       ELSE IF opps = <<>> THEN [err |-> "ZeroDivisionError", val |-> NaN]
       ELSE [err |-> "none",
             val |-> RoundHalfEven(
                        10 * SumSeq([k \in 1..Len(opps) |-> rp(opps[k].Against)]),
                        cw * Len(opps))]

\* Mutant: every remaining opponent counted once, however often it is faced.
roar_row_each_opponent_once(rows, remaining, cw, p) ==
    LET opps == SelectSeq(remaining, LAMBDA r : r.Player = p)
        names == {opps[k].Against : k \in 1..Len(opps)}
        found(o) == \E i \in 1..Len(rows) : rows[i].Player = o
        rp(o) == rows[CHOOSE i \in 1..Len(rows) :
                        /\ rows[i].Player = o
                        /\ \A j \in 1..(i - 1) : rows[j].Player # o].RankPoints10
        once == SelectSeq(SortedNames, LAMBDA o : o \in names)
    IN IF remaining = <<>> THEN [err |-> "none", val |-> 0]
       ELSE IF \E k \in 1..Len(opps) : ~found(opps[k].Against)
            THEN [err |-> "IndexError", val |-> NaN]
       ELSE IF opps = <<>> THEN [err |-> "ZeroDivisionError", val |-> NaN]
       ELSE [err |-> "none",
             val |-> RoundHalfEven(
                        10 * SumSeq([k \in 1..Len(once) |-> rp(once[k])]),
                        cw * Len(once))]

roar_row(rows, remaining, cw, p) ==
    LET opps == SelectSeq(remaining, LAMBDA r : r.Player = p)
        found(o) == \E i \in 1..Len(rows) : rows[i].Player = o
        rp(o) == rows[CHOOSE i \in 1..Len(rows) :
                        /\ rows[i].Player = o
                        /\ \A j \in 1..(i - 1) : rows[j].Player # o].RankPoints10
    IN IF remaining = <<>> THEN [err |-> "none", val |-> 0]
       ELSE IF \E k \in 1..Len(opps) : ~found(opps[k].Against)
            THEN [err |-> "IndexError", val |-> NaN]
       ELSE IF opps = <<>> THEN [err |-> "ZeroDivisionError", val |-> NaN]
       ELSE [err |-> "none",
             val |-> RoundHalfEven(
                        10 * SumSeq([k \in 1..Len(opps) |-> rp(opps[k].Against)]),
                        cw * Len(opps))]

remaining_opponent_avg_rank(rows, sched, cw) ==
    LET remaining == SelectSeq(sched, LAMBDA r : r.Week > cw)
        per == [i \in 1..Len(rows) |-> roar_row(rows, remaining, cw, rows[i].Player)]
        bad == {i \in 1..Len(rows) : per[i].err # "none"}
    IN IF bad = {}
       THEN [err |-> "none", val |-> [i \in 1..Len(rows) |-> per[i].val]]
       ELSE [err |-> per[CHOOSE i \in bad : \A j \in bad : i <= j].err, val |-> <<>>]

\* Sum of a column over rows, NaN skipped (pandas sum, skipna).
SumCol(rows, col) ==
    SumSeq([i \in 1..Len(rows) |-> IF IsMissing(rows[i], col) THEN 0 ELSE rows[i][col]])

\* Sum of a boolean column: the number of True.
CountCol(rows, col) ==
    SumSeq([i \in 1..Len(rows) |-> IF rows[i][col] THEN 1 ELSE 0])

\* Mutant: rank(ascending=False, method="min"), tied totals all given the
\* best of their positions.
place2_min(totals, i) == MinRank2(totals, i, FALSE)

\* Mutant: ascending=False left out.
place2_ascending(totals, i) == AvgRank2(totals, i, TRUE)

\* season["Place"] = season["Total Points"].rank(ascending=False), doubled.
place2(totals, i) == AvgRank2(totals, i, FALSE)

\* The groupby / agg / round / Total Points part, lines 181-205: one row per
\* player of the table, in alphabetical order.
season_totals(t) ==
    LET names == SelectSeq(SortedNames,
                           LAMBDA p : \E i \in 1..Len(t) : t[i].Player = p)
    IN [g \in 1..Len(names) |->
         LET rows == SelectSeq(t, LAMBDA r : r.Player = names[g])
             wins == CountCol(rows, "Won")
             rp10 == RoundHalfEven(
                        10 * SumSeq([i \in 1..Len(rows) |->
                                IF rows[i].RankPoints.num = NaN THEN 0
                                ELSE rows[i].RankPoints.num]),
                        rows[1].RankPoints.den)
         IN [Player |-> names[g],
             Points |-> SumCol(rows, "Points"),
             PointsAgainst |-> SumCol(rows, "PointsAgainst"),
             Wins |-> wins,
             RankPoints10 |-> rp10,
             TotalPoints10 |-> 10 * wins + rp10,
             ExpectedWins |-> CountCol(rows, "ExpectedWin"),
             CloseWins |-> CountCol(rows, "CloseWin"),
             CloseLosses |-> CountCol(rows, "CloseLoss")]]

\* Mutant: the sort left out.
sort_forgotten(rows) == rows

\* season.sort_values(by="Place", ascending=True)
sort_by_place(rows) ==
    LET order == ArgSort([i \in 1..Len(rows) |-> rows[i].Place2])
    IN [k \in 1..Len(rows) |-> rows[order[k]]]

\* Lines 206-207: Place, then the sort.
season_placed(t) ==
    LET tot == season_totals(t)
        totals == [i \in 1..Len(tot) |-> tot[i].TotalPoints10]
    IN sort_by_place([i \in 1..Len(tot) |->
            [Place2 |-> place2(totals, i), Player |-> tot[i].Player,
             Points |-> tot[i].Points, PointsAgainst |-> tot[i].PointsAgainst,
             Wins |-> tot[i].Wins, RankPoints10 |-> tot[i].RankPoints10,
             TotalPoints10 |-> tot[i].TotalPoints10,
             ExpectedWins |-> tot[i].ExpectedWins,
             CloseWins |-> tot[i].CloseWins,
             CloseLosses |-> tot[i].CloseLosses]])

\* Assign the "Remain Opp Avg Rank Pts" column (in hundredths).
with_roar(rows, res) ==
    IF res.err # "none" THEN [err |-> res.err, rows |-> <<>>]
    ELSE [err |-> "none",
          rows |-> [i \in 1..Len(rows) |->
                      [Place2 |-> rows[i].Place2, Player |-> rows[i].Player,
                       Points |-> rows[i].Points,
                       PointsAgainst |-> rows[i].PointsAgainst,
                       Wins |-> rows[i].Wins,
                       RankPoints10 |-> rows[i].RankPoints10,
                       TotalPoints10 |-> rows[i].TotalPoints10,
                       ExpectedWins |-> rows[i].ExpectedWins,
                       CloseWins |-> rows[i].CloseWins,
                       CloseLosses |-> rows[i].CloseLosses,
                       RemainOppAvgRankPts100 |-> res.val[i]]]]

\* The list remaining_opponent_avg_rank returned to collect_season_stats, read
\* back from the column it was assigned to.
roar_column(s) ==
    [err |-> s.err,
     val |-> [i \in 1..Len(s.rows) |-> s.rows[i].RemainOppAvgRankPts100]]

collect_season_stats(t, sched) ==
    LET placed == season_placed(t)
    IN with_roar(placed, remaining_opponent_avg_rank(placed, sched, max_week(t)))

\* Mutant: the week filter left out, every row of the table kept.
temp_points_unfiltered(t, w) ==
    [i \in 1..Len(t) |->
          [t[i] EXCEPT !.AgainstRank2 = group_rank2(t, i, "Against", "PointsAgainst")]]

\* The callback's temp_points: the rows up to the week, "Against Rank"
\* recomputed per opponent over those rows.
temp_points_of(t, w) ==
    LET f == SelectSeq(t, LAMBDA r : r.Week <= w)
    IN [i \in 1..Len(f) |->
          [f[i] EXCEPT !.AgainstRank2 = group_rank2(f, i, "Against", "PointsAgainst")]]

----------------------------------------------------------------------------
\* get_matchup_items: the same item for the two players of a matchup.

\* Mutant: a player with no row in the week's schedule is given no opponent
\* instead of raising.
lookup_against_default(sched, player) ==
    LET rows == SelectSeq(sched, LAMBDA r : r.Player = player)
    IN IF rows = <<>> THEN [err |-> "none", val |-> NoName]
       ELSE [err |-> "none", val |-> rows[1].Against]

\* schedule.loc[schedule[player_col] == player, against_col].iloc[0]: the
\* opponent in the player's first row; IndexError when the player has no row.
lookup_against(sched, player) ==
    LET rows == SelectSeq(sched, LAMBDA r : r.Player = player)
    IN IF rows = <<>> THEN [err |-> "IndexError", val |-> NoName]
       ELSE [err |-> "none", val |-> rows[1].Against]

\* Mutant: the item given to the player only, the opponent left for its own
\* turn.
assign_player_only(item_map, player, against, item) ==
    (player :> item) @@ item_map

\* item_map[player] = item; item_map[against] = item (the later assignment
\* wins when the two keys are the same).
assign_items(item_map, player, against, item) ==
    (against :> item) @@ (player :> item) @@ item_map

\* The loop over players[k..]; st holds item_map, item_index and the
\* exception raised so far.  items[item_index] raises IndexError when the
\* items are used up.
RECURSIVE item_loop(_, _, _, _, _)
item_loop(players, sched, items, k, st) ==
    IF k > Len(players) \/ st.err # "none" THEN st
    ELSE LET player == players[k]
             against == lookup_against(sched, player)
         IN IF against.err # "none" THEN [st EXCEPT !.err = against.err]
            ELSE IF player \in DOMAIN st.item_map
                 THEN item_loop(players, sched, items, k + 1, st)
            ELSE IF st.item_index >= Len(items)
                 THEN [st EXCEPT !.err = "IndexError"]
            ELSE item_loop(players, sched, items, k + 1,
                    [item_map |-> assign_items(st.item_map, player, against.val,
                                               items[st.item_index + 1]),
                     item_index |-> st.item_index + 1,
                     err |-> "none"])

get_matchup_items(players, sched, items) ==
    LET st == item_loop(players, sched, items, 1,
                        [item_map |-> <<>>, item_index |-> 0, err |-> "none"])
    IN IF st.err # "none" THEN [err |-> st.err, val |-> <<>>]
       ELSE [err |-> "none",
             val |-> [k \in 1..Len(players) |-> st.item_map[players[k]]]]


----------------------------------------------------------------------------
\* Values of the result variables before any result.

NoTable == [err |-> "none", rows |-> <<>>]
NoResult == [err |-> "none", val |-> <<>>]

\* No figure drawn yet.
NoFig == [err |-> "none", week |-> 0, players |-> <<>>, points |-> <<>>,
          won |-> <<>>, colors |-> <<>>, numbers |-> <<>>, texts |-> NoResult]

----------------------------------------------------------------------------
\* update_week_points_fig: the bar chart of a week.

\* week_points_df.sort_values(by=POINTS_COL, ascending=False): highest points
\* first, equal points in row order, missing points last.
sort_by_points_desc(rows) ==
    LET order == ArgSort([i \in 1..Len(rows) |->
                    IF rows[i].Points = NaN THEN 1 ELSE 0 - rows[i].Points])
    IN [k \in 1..Len(rows) |-> rows[order[k]]]

\* ["<b>{}</b>".format(i + 1) for i in range(int(len(week_players)/2))]
matchup_numbers(n) == [i \in 1..(n \div 2) |-> "<b>" \o ToString(i) \o "</b>"]

\* schedule.loc[schedule[WEEK_COL] == week, :]
week_schedule_of(sched, w) == SelectSeq(sched, LAMBDA r : r.Week = w)

\* Lines 485-515: the bars (players, points, won, colours as the players'
\* positions in PLAYERS) and their matchup texts.  PLAYERS.index raises
\* ValueError for a name that is no schedule column.
week_points_fig(pts, week_schedule, cw, w) ==
    LET df == sort_by_points_desc(SelectSeq(pts, LAMBDA r : r.Week = w))
        week_players == IF w > cw THEN PLAYERS ELSE [k \in 1..Len(df) |-> df[k].Player]
        week_points == IF w > cw THEN [k \in 1..Len(PLAYERS) |-> 1]
                       ELSE [k \in 1..Len(df) |-> df[k].Points]
        week_won == IF w > cw THEN [k \in 1..Len(PLAYERS) |-> 0]
                    ELSE [k \in 1..Len(df) |-> IF df[k].Won THEN 1 ELSE 0]
        numbers == matchup_numbers(Len(week_players))
        drawn == [NoFig EXCEPT !.week = w, !.players = week_players,
                               !.points = week_points, !.won = week_won]
    IN IF \E k \in 1..Len(week_players) : week_players[k] \notin PlayerSet
       THEN [drawn EXCEPT !.err = "ValueError"]
       ELSE LET texts == get_matchup_items(week_players, week_schedule, numbers)
            IN [drawn EXCEPT
                    !.err = texts.err,
                    !.colors = [k \in 1..Len(week_players) |->
                                    CHOOSE c \in 1..Len(PLAYERS) :
                                        PLAYERS[c] = week_players[k]],
                    !.numbers = numbers,
                    !.texts = texts]

----------------------------------------------------------------------------
\* update_season_dist_plot: one violin per player, in order of Place.

\* The values of the plot selector: the column recomputed by the callback
\* first, then the others.
PlotColumns ==
    <<"AgainstRank2", "Points", "PointsAgainst", "RankPoints", "RankPointsAgainst">>

\* Lines 286-307: per player of temp_season in order of Place, the colour (the
\* player's position in PLAYERS) and the y_col values of the player's rows.
season_dist_plot(temp_points, sched, y_col) ==
    LET temp_season == collect_season_stats(temp_points, sched)
        placed == sort_by_place(temp_season.rows)
    IN IF temp_season.err # "none" THEN [err |-> temp_season.err, val |-> <<>>]
       ELSE IF \E k \in 1..Len(placed) : placed[k].Player \notin PlayerSet
            THEN [err |-> "ValueError", val |-> <<>>]
       ELSE [err |-> "none",
             val |-> [k \in 1..Len(placed) |->
                LET player_points ==
                        SelectSeq(temp_points, LAMBDA r : r.Player = placed[k].Player)
                IN [name |-> placed[k].Player,
                    color |-> CHOOSE c \in 1..Len(PLAYERS) : PLAYERS[c] = placed[k].Player,
                    y |-> [i \in 1..Len(player_points) |-> player_points[i][y_col]]]]]

----------------------------------------------------------------------------
\* The program: the module-level script, then the callbacks.

Init ==
    /\ pc = "loaded"
    /\ schedule_wide \in ScheduleTables(MaxWeek)
    /\ points_wide \in PointsInputs(MaxWeek)
    /\ schedule = <<>>
    /\ points_data = <<>>
    /\ points_against = <<>>
    /\ points = <<>>
    /\ current_week = 0
    /\ season = NoTable
    /\ roar = NoResult
    /\ cutoff = 0
    /\ week = 0
    /\ fig = NoFig
    /\ calls = <<>>

\* Lines 334-339.
Melt ==
    /\ pc = "loaded"
    /\ schedule' = melt_schedule(schedule_wide, PLAYERS)
    /\ points_data' = melt_points(points_wide, points_columns(points_wide))
    /\ pc' = "melted"
    /\ UNCHANGED <<schedule_wide, points_wide, points_against, points,
                   current_week, season, roar, cutoff, week,
                   fig, calls>>

\* Lines 340-345.
Link ==
    /\ pc = "melted"
    /\ points_against' = determine_points_against(points_data, schedule)
    /\ points' = link_points(points_data, points_against')
    /\ current_week' = max_week(points')
    /\ pc' = "linked"
    /\ UNCHANGED <<schedule_wide, points_wide, schedule, points_data, season,
                   roar, cutoff, week,
                   fig, calls>>

\* Lines 347-375.
WeeklyMetrics ==
    /\ pc = "linked"
    /\ points' = weekly_metrics(points, PLAYERS)
    /\ pc' = "metrics"
    /\ UNCHANGED <<schedule_wide, points_wide, schedule, points_data,
                   points_against, current_week, season, roar, cutoff, week,
                   fig, calls>>

\* Lines 377-379.
SeasonStats ==
    /\ pc = "metrics"
    /\ season' = collect_season_stats(points, schedule)
    /\ roar' = roar_column(season')
    /\ cutoff' = max_week(points)
    /\ pc' = IF season'.err = "none" THEN "serving" ELSE "failed"
    /\ UNCHANGED <<schedule_wide, points_wide, schedule, points_data,
                   points_against, points, current_week, week,
                   fig, calls>>

\* The week-slider callback update_season_stats_table(week).
update_season_stats_table(w) ==
    /\ pc = "serving"
    /\ LET temp_points == temp_points_of(points, w)
       IN /\ season' = collect_season_stats(temp_points, schedule)
          /\ roar' = roar_column(season')
          /\ cutoff' = max_week(temp_points)
    /\ week' = w
    /\ UNCHANGED <<pc, schedule_wide, points_wide, schedule, points_data,
                   points_against, points, current_week,
                   fig, calls>>

Next ==
    \/ Melt
    \/ Link
    \/ WeeklyMetrics
    \/ SeasonStats
    \/ \E w \in 1..MaxWeek : update_season_stats_table(w)

Spec == Init /\ [][Next]_vars

----------------------------------------------------------------------------
\* remaining_opponent_avg_rank called on its own, as its test calls it: a
\* season table read from a file, the melted schedule and a current week.

\* A season table as the function reads it: a player and a total rank score.
SeasonInputs ==
    {[i \in 1..Len(PLAYERS) |->
        [Player |-> PLAYERS[i], RankPoints10 |-> f[PLAYERS[i]]]] :
        f \in [PlayerSet -> 0..MaxTenths]}

\* The last LateWeeks weeks of a schedule that ends the week before MaxCutoff.
LateSchedules ==
    {[i \in 1..LateWeeks |-> [Week |-> MaxCutoff - LateWeeks - 1 + i, opp |-> f[i]]] :
        f \in [1..LateWeeks -> Pairings]}

InitRoar ==
    /\ pc = "roar_call"
    /\ schedule_wide \in LateSchedules
    /\ schedule = melt_schedule(schedule_wide, PLAYERS)
    /\ season \in {[err |-> "none", rows |-> r] : r \in SeasonInputs}
    /\ current_week \in 1..MaxCutoff
    /\ points_wide = <<>>
    /\ points_data = <<>>
    /\ points_against = <<>>
    /\ points = <<>>
    /\ roar = NoResult
    /\ cutoff = 0
    /\ week = 0
    /\ fig = NoFig
    /\ calls = <<>>

RoarCall ==
    /\ pc = "roar_call"
    /\ roar' = remaining_opponent_avg_rank(season.rows, schedule, current_week)
    /\ cutoff' = current_week
    /\ pc' = "roar_done"
    /\ UNCHANGED <<schedule_wide, points_wide, schedule, points_data,
                   points_against, points, current_week, season, week,
                   fig, calls>>

NextRoar == RoarCall

SpecRoar == InitRoar /\ [][NextRoar]_vars

----------------------------------------------------------------------------
\* get_matchup_items called on its own, as its test calls it: the player
\* columns in some order, the rows of one week of the melted schedule and a
\* list of items.

\* The orders of the player columns.
PlayerLists ==
    {l \in [1..Len(PLAYERS) -> PlayerSet] : \A i, j \in 1..Len(PLAYERS) : l[i] = l[j] => i = j}

\* The cells of one week: a pairing, or a pairing with the cells of one of its
\* matchups left empty (a bye).
WeekCells ==
    Pairings
    \cup {[p \in PlayerSet |-> IF p \in {q, f[q]} THEN NoName ELSE f[p]] :
            f \in Pairings, q \in PlayerSet}

\* The week's rows of the melted schedule: all of them, or all but those of
\* one player.
WeekSchedules(w) ==
    {SelectSeq(melt_schedule(<<[Week |-> w, opp |-> c]>>, PLAYERS),
               LAMBDA r : r.Player # q) :
        c \in WeekCells, q \in PlayerSet \cup {NoName}}

\* "{}".format(i + 1)
item_text(i) == ToString(i)

\* Lists of up to n items, repeated items included.
ItemLists(n) ==
    UNION {[1..k -> {item_text(i) : i \in 1..n}] : k \in 0..n}

InitItems ==
    /\ pc = "items_call"
    /\ schedule \in WeekSchedules(1)
    /\ \E players \in PlayerLists : \E items \in ItemLists(MaxItems) :
        fig = [NoFig EXCEPT !.players = players, !.numbers = items]
    /\ schedule_wide = <<>>
    /\ points_wide = <<>>
    /\ points_data = <<>>
    /\ points_against = <<>>
    /\ points = <<>>
    /\ current_week = 0
    /\ season = NoTable
    /\ roar = NoResult
    /\ cutoff = 0
    /\ week = 0
    /\ calls = <<>>

ItemsCall ==
    /\ pc = "items_call"
    /\ fig' = [fig EXCEPT !.texts = get_matchup_items(fig.players, schedule, fig.numbers)]
    /\ pc' = "items_done"
    /\ UNCHANGED <<schedule_wide, points_wide, schedule, points_data,
                   points_against, points, current_week, season, roar, cutoff,
                   week, calls>>

NextItems == ItemsCall

SpecItems == InitItems /\ [][NextItems]_vars

----------------------------------------------------------------------------
\* The callbacks as the server runs them: several invocations in flight, each
\* with its own locals, interleaved between the read of the module-level
\* tables and the return.

\* A worker with no invocation.
IdleCall == [pc |-> "idle", kind |-> "", week |-> 0, col |-> "", temp |-> <<>>,
             result |-> <<>>]

CallFree(i) == calls[i].pc \in {"idle", "done"}

\* The seasons served: the schedules of MaxWeek weeks that open with A
\* against B, and the points tables of up to MaxWeek weeks in which C scores
\* what B does and D what A does.
ServedSchedules(n) == {t \in ScheduleTables(n) : t[1].opp["A"] = "B"}

MirrorTables(n) ==
    {t \in PointsTables(n, ScoreValues(NumScores)) :
        \A i \in 1..n : t[i].pts["C"] = t[i].pts["B"] /\ t[i].pts["D"] = t[i].pts["A"]}

InitServing ==
    /\ pc = "loaded"
    /\ schedule_wide \in ServedSchedules(MaxWeek)
    /\ points_wide \in UNION {MirrorTables(k) : k \in 1..MaxWeek}
    /\ schedule = <<>>
    /\ points_data = <<>>
    /\ points_against = <<>>
    /\ points = <<>>
    /\ current_week = 0
    /\ season = NoTable
    /\ roar = NoResult
    /\ cutoff = 0
    /\ week = 0
    /\ fig = NoFig
    /\ calls = [i \in 1..NumCalls |-> IdleCall]

\* Mutant: the filtered rows bound to the module-level name (a "global
\* points" slip), so that later invocations start from the truncated table.
season_stats_table_filter_in_place(i, w) ==
    /\ pc = "serving"
    /\ CallFree(i)
    /\ points' = SelectSeq(points, LAMBDA r : r.Week <= w)
    /\ calls' = [calls EXCEPT ![i] =
                    [pc |-> "filtered", kind |-> "table", week |-> w, col |-> "",
                     temp |-> temp_points_of(points, w), result |-> <<>>]]
    /\ UNCHANGED <<pc, schedule_wide, points_wide, schedule, points_data,
                   points_against, current_week, season, roar, cutoff, week, fig>>

\* Mutant: temp_points a view, the "Against Rank" assignment landing in the
\* module-level table.
season_stats_table_filter_view(i, w) ==
    /\ pc = "serving"
    /\ CallFree(i)
    /\ points' = [k \in 1..Len(points) |->
                    IF points[k].Week <= w
                    THEN [points[k] EXCEPT !.AgainstRank2 =
                            group_rank2(SelectSeq(points, LAMBDA r : r.Week <= w),
                                        Cardinality({j \in 1..k : points[j].Week <= w}),
                                        "Against", "PointsAgainst")]
                    ELSE points[k]]
    /\ calls' = [calls EXCEPT ![i] =
                    [pc |-> "filtered", kind |-> "table", week |-> w, col |-> "",
                     temp |-> temp_points_of(points, w), result |-> <<>>]]
    /\ UNCHANGED <<pc, schedule_wide, points_wide, schedule, points_data,
                   points_against, current_week, season, roar, cutoff, week, fig>>

\* update_season_stats_table, lines 563-565: temp_points, a copy of the rows
\* up to the week, with its "Against Rank" recomputed.
season_stats_table_filter(i, w) ==
    /\ pc = "serving"
    /\ CallFree(i)
    /\ calls' = [calls EXCEPT ![i] =
                    [pc |-> "filtered", kind |-> "table", week |-> w, col |-> "",
                     temp |-> temp_points_of(points, w), result |-> <<>>]]
    /\ UNCHANGED <<pc, schedule_wide, points_wide, schedule, points_data,
                   points_against, points, current_week, season, roar, cutoff,
                   week, fig>>

\* update_season_stats_table, lines 566-569.
season_stats_table_return(i) ==
    /\ calls[i].pc = "filtered"
    /\ calls[i].kind = "table"
    /\ calls' = [calls EXCEPT ![i].pc = "done",
                              ![i].result = collect_season_stats(calls[i].temp, schedule)]
    /\ UNCHANGED <<pc, schedule_wide, points_wide, schedule, points_data,
                   points_against, points, current_week, season, roar, cutoff,
                   week, fig>>

\* update_season_dist_plot, lines 282-285.
season_dist_plot_filter(i, w, y_col) ==
    /\ pc = "serving"
    /\ CallFree(i)
    /\ calls' = [calls EXCEPT ![i] =
                    [pc |-> "filtered", kind |-> "dist", week |-> w, col |-> y_col,
                     temp |-> temp_points_of(points, w), result |-> <<>>]]
    /\ UNCHANGED <<pc, schedule_wide, points_wide, schedule, points_data,
                   points_against, points, current_week, season, roar, cutoff,
                   week, fig>>

\* update_season_dist_plot, lines 286-316.
season_dist_plot_return(i) ==
    /\ calls[i].pc = "filtered"
    /\ calls[i].kind = "dist"
    /\ calls' = [calls EXCEPT ![i].pc = "done",
                              ![i].result = season_dist_plot(calls[i].temp, schedule,
                                                             calls[i].col)]
    /\ UNCHANGED <<pc, schedule_wide, points_wide, schedule, points_data,
                   points_against, points, current_week, season, roar, cutoff,
                   week, fig>>

\* update_week_points_fig, line 484: week_schedule.
week_points_fig_schedule(i, w) ==
    /\ pc = "serving"
    /\ CallFree(i)
    /\ calls' = [calls EXCEPT ![i] =
                    [pc |-> "filtered", kind |-> "fig", week |-> w, col |-> "",
                     temp |-> week_schedule_of(schedule, w), result |-> <<>>]]
    /\ UNCHANGED <<pc, schedule_wide, points_wide, schedule, points_data,
                   points_against, points, current_week, season, roar, cutoff,
                   week, fig>>

\* update_week_points_fig, lines 485-536.
week_points_fig_return(i) ==
    /\ calls[i].pc = "filtered"
    /\ calls[i].kind = "fig"
    /\ calls' = [calls EXCEPT ![i].pc = "done",
                              ![i].result = week_points_fig(points, calls[i].temp,
                                                            current_week, calls[i].week)]
    /\ UNCHANGED <<pc, schedule_wide, points_wide, schedule, points_data,
                   points_against, points, current_week, season, roar, cutoff,
                   week, fig>>

NextServing ==
    \/ Melt
    \/ Link
    \/ WeeklyMetrics
    \/ SeasonStats
    \/ \E i \in 1..NumCalls : \E w \in 1..MaxWeek : season_stats_table_filter(i, w)
    \/ \E i \in 1..NumCalls : season_stats_table_return(i)
    \/ \E i \in 1..NumCalls : \E w \in 1..MaxWeek :
        \E k \in 1..NumPlotColumns : season_dist_plot_filter(i, w, PlotColumns[k])
    \/ \E i \in 1..NumCalls : season_dist_plot_return(i)
    \/ \E i \in 1..NumCalls : \E w \in 1..MaxWeek : week_points_fig_schedule(i, w)
    \/ \E i \in 1..NumCalls : week_points_fig_return(i)

SpecServing == InitServing /\ [][NextServing]_vars

----------------------------------------------------------------------------
\* The program on input tables with gaps: a schedule with bye weeks (empty
\* cells), or a points table whose player columns are not the schedule's.

\* Points tables over the player columns cols.
PointsTablesOver(cols, n, scores) ==
    {[i \in 1..n |-> [Week |-> i, pts |-> f[i]]] : f \in [1..n -> [cols -> scores]]}

\* Schedules of n weeks with a bye in at least one week.
ByeSchedules(n) ==
    {[i \in 1..n |-> [Week |-> i, opp |-> f[i]]] : f \in [1..n -> WeekCells]}
    \ ScheduleTables(n)

\* Player columns of a points table that differ from the schedule's: the last
\* player missing, or under another name.
OtherColumns == {PlayerSet \ {"D"}, (PlayerSet \ {"D"}) \cup {"E"}}

InitGaps ==
    /\ pc = "loaded"
    /\ \/ /\ schedule_wide \in ByeSchedules(MaxWeek)
          /\ points_wide \in UNION {MirrorTables(k) : k \in 1..MaxWeek}
       \/ /\ schedule_wide \in ScheduleTables(MaxWeek)
          /\ \E cols \in OtherColumns : \E k \in 1..MaxWeek :
                points_wide \in PointsTablesOver(cols, k, ScoreValues(NumScores))
    /\ schedule = <<>>
    /\ points_data = <<>>
    /\ points_against = <<>>
    /\ points = <<>>
    /\ current_week = 0
    /\ season = NoTable
    /\ roar = NoResult
    /\ cutoff = 0
    /\ week = 0
    /\ fig = NoFig
    /\ calls = <<>>

\* The week-slider callback update_week_points_fig(week).
update_week_points_fig(w) ==
    /\ pc = "serving"
    /\ fig' = week_points_fig(points, week_schedule_of(schedule, w), current_week, w)
    /\ UNCHANGED <<pc, schedule_wide, points_wide, schedule, points_data,
                   points_against, points, current_week, season, roar, cutoff,
                   week, calls>>

NextGaps ==
    \/ Melt
    \/ Link
    \/ WeeklyMetrics
    \/ SeasonStats
    \/ \E w \in 1..MaxWeek : update_season_stats_table(w)
    \/ \E w \in 1..MaxWeek : update_week_points_fig(w)

SpecGaps == InitGaps /\ [][NextGaps]_vars

----------------------------------------------------------------------------
\* Properties.

Linked == pc \in {"linked", "metrics", "serving"}
HasMetrics == pc \in {"metrics", "serving"}
RoarReturned == pc \in {"serving", "roar_done"}

Rows(t) == 1..Len(t)

PlayerIndex(p) == CHOOSE i \in 1..Len(PLAYERS) : PLAYERS[i] = p

\* At most one row per (week, player).
Keyed(t) ==
    \A i, j \in Rows(t) :
        (t[i].Week = t[j].Week /\ t[i].Player = t[j].Player) => i = j

\* Rows i and j of the points table are the two sides of one matchup.
Paired(i, j) ==
    /\ points[i].Week = points[j].Week
    /\ points[i].Against = points[j].Player
    /\ points[j].Against = points[i].Player

\* C1: every row (w, p, q) of the linked points table whose opponent q has a
\* row (w, q) in the points input carries that row's points as points_against.
C1_PointsAgainstIsOpponentsPoints ==
    Linked =>
        \A i \in Rows(points) : \A j \in Rows(points_data) :
            (points_data[j].Week = points[i].Week
                /\ points_data[j].Player = points[i].Against)
            => points[i].PointsAgainst = points_data[j].Points

\* A linked two-week table in which a player meets different scores in the
\* two weeks, one of them different from the player's own.
C1_Witness ==
    /\ pc = "linked"
    /\ \E i, k \in Rows(points) :
        /\ points[i].Player = points[k].Player
        /\ points[i].Week # points[k].Week
        /\ points[i].PointsAgainst # points[k].PointsAgainst
        /\ points[i].PointsAgainst # points[i].Points

\* C2: with a schedule and a points input keyed by (week, player),
\* determine_points_against returns as many rows as the points input has, and
\* exactly one row for each of its (week, player).
C2_OneRowPerWeekPlayer ==
    (Linked /\ Keyed(schedule) /\ Keyed(points_data)) =>
        /\ Len(points_against) = Len(points_data)
        /\ \A j \in Rows(points_data) :
            Cardinality({i \in Rows(points_against) :
                            /\ points_against[i].Week = points_data[j].Week
                            /\ points_against[i].Player = points_data[j].Player}) = 1

\* determine_points_against has run on a points input of several weeks.
C2_Witness ==
    /\ pc = "linked"
    /\ Keyed(schedule)
    /\ Keyed(points_data)
    /\ Len(points_data) = MaxWeek * Len(PLAYERS)
    /\ Len(points_against) = Len(points_data)

\* C3: the two sides of a matchup never both have won; exactly one has won
\* when the scores differ, neither when they are equal.
C3_WonExclusive ==
    HasMetrics =>
        \A i, j \in Rows(points) :
            Paired(i, j) =>
                /\ ~(points[i].Won /\ points[j].Won)
                /\ (points[i].Points # points[j].Points
                        => (points[i].Won # points[j].Won))
                /\ (points[i].Points = points[j].Points
                        => (~points[i].Won /\ ~points[j].Won))

\* A week with a tied matchup and a decided one.
C3_Witness ==
    /\ HasMetrics
    /\ \E i, j, k, l \in Rows(points) :
        /\ Paired(i, j) /\ points[i].Points = points[j].Points
        /\ Paired(k, l) /\ points[k].Won /\ ~points[l].Won
        /\ points[i].Week = points[k].Week

ExampleScores == [A |-> 100, B |-> 80, C |-> 90, D |-> 90]
ExampleRank2 == [A |-> 8, B |-> 2, C |-> 5, D |-> 5]

\* C4: a row's rank is k + (t + 1) / 2, for k the scores of its week strictly
\* below its own and t the scores of its week equal to its own (itself
\* included); the week A=100, B=80, C=90, D=90 ranks A=4, C=D=2.5, B=1.
C4_FractionalRank ==
    HasMetrics =>
        \A i \in Rows(points) :
            LET same == {j \in Rows(points) : points[j].Week = points[i].Week}
                k == Cardinality({j \in same : points[j].Points < points[i].Points})
                t == Cardinality({j \in same : points[j].Points = points[i].Points})
            IN /\ points[i].Rank2 = 2 * k + t + 1
               /\ (points_wide[points[i].Week].pts = ExampleScores
                    => points[i].Rank2 = ExampleRank2[points[i].Player])

\* The metrics of the example week have been computed.
C4_Witness ==
    /\ HasMetrics
    /\ \E w \in Rows(points_wide) : points_wide[w].pts = ExampleScores
    /\ \E i \in Rows(points) : points[i].Rank2 = 5

WeekRows(w) == SelectSeq(points, LAMBDA r : r.Week = w)

WeeksOf(t) == {t[i].Week : i \in Rows(t)}

\* C5: the ranks of a week sum to N (N + 1) / 2, N the number of player
\* columns, whatever scores are tied (the doubled ranks sum to N (N + 1)).
C5_RankSum ==
    HasMetrics =>
        \A w \in WeeksOf(points) :
            SumSeq([k \in Rows(WeekRows(w)) |-> WeekRows(w)[k].Rank2])
                = Len(PLAYERS) * (Len(PLAYERS) + 1)

\* Two scored weeks, one of them with three equal scores.
C5_Witness ==
    /\ HasMetrics
    /\ Cardinality(WeeksOf(points)) = MaxWeek
    /\ \E i, j, k \in Rows(points) :
        /\ i # j /\ j # k /\ i # k
        /\ points[i].Week = points[j].Week /\ points[j].Week = points[k].Week
        /\ points[i].Points = points[j].Points /\ points[j].Points = points[k].Points

\* C6: rank_score = rank / N for N the number of player columns, and
\* 0 < rank_score <= 1.
C6_RankScore ==
    HasMetrics =>
        \A i \in Rows(points) :
            LET rs == points[i].RankPoints
            IN /\ rs.den > 0
               /\ rs.num * 2 * Len(PLAYERS) = points[i].Rank2 * rs.den
               /\ 0 < rs.num
               /\ rs.num <= rs.den

\* A week whose top score is alone (rank_score 1) and whose lowest is tied.
C6_Witness ==
    /\ HasMetrics
    /\ \E i, j \in Rows(points) :
        /\ points[i].Week = points[j].Week
        /\ points[i].RankPoints.num = points[i].RankPoints.den
        /\ points[j].Rank2 = 3

\* C7: in the table of collect_season_stats a strictly greater Total Points
\* has a strictly smaller Place, and equal Total Points have equal Place.
C7_PlaceFollowsTotal ==
    (pc = "serving" /\ season.err = "none") =>
        \A i, j \in Rows(season.rows) :
            /\ (season.rows[i].TotalPoints10 > season.rows[j].TotalPoints10
                    => season.rows[i].Place2 < season.rows[j].Place2)
            /\ (season.rows[i].TotalPoints10 = season.rows[j].TotalPoints10
                    => season.rows[i].Place2 = season.rows[j].Place2)

\* A season table over two weeks with two players level on Total Points and
\* a third ahead of them with fewer points scored.
C7_Witness ==
    /\ pc = "serving"
    /\ season.err = "none"
    /\ cutoff = MaxWeek
    /\ \E i, j, k \in Rows(season.rows) :
        /\ i # j
        /\ season.rows[i].TotalPoints10 = season.rows[j].TotalPoints10
        /\ season.rows[k].TotalPoints10 > season.rows[i].TotalPoints10
        /\ season.rows[k].Points < season.rows[i].Points

\* C8: the rows of the table of collect_season_stats are in non-decreasing
\* order of Place.
C8_SortedByPlace ==
    (pc = "serving" /\ season.err = "none") =>
        \A i \in Rows(season.rows) :
            i < Len(season.rows) => season.rows[i].Place2 <= season.rows[i + 1].Place2

\* The callback has run with a cutoff before the last scored week and the
\* sort has moved a player ahead of one that precedes it alphabetically.
C8_Witness ==
    /\ pc = "serving"
    /\ season.err = "none"
    /\ week # 0
    /\ week < current_week
    /\ \E i \in Rows(season.rows) :
        /\ i < Len(season.rows)
        /\ season.rows[i].Place2 < season.rows[i + 1].Place2
        /\ PlayerIndex(season.rows[i].Player) > PlayerIndex(season.rows[i + 1].Player)

\* Rows of the schedule after the cutoff of the last call, all and per player.
Remaining == SelectSeq(schedule, LAMBDA r : r.Week > cutoff)
RemainingOf(p) == SelectSeq(Remaining, LAMBDA r : r.Player = p)

\* C9: when no schedule row lies after the cutoff, remaining_opponent_avg_rank
\* raises nothing and returns one 0 per season row.
C9_NothingRemainsGivesZero ==
    (RoarReturned /\ Remaining = <<>>) =>
        /\ roar.err = "none"
        /\ Len(roar.val) = Len(season.rows)
        /\ \A i \in Rows(roar.val) : roar.val[i] = 0

\* The function has been called at the last scheduled week, and beyond it,
\* on a season table with positive rank scores.
C9_Witness ==
    /\ pc = "roar_done"
    /\ cutoff = Max(WeeksOf(schedule))
    /\ Len(roar.val) = Len(PLAYERS)
    /\ \A i \in Rows(season.rows) : season.rows[i].RankPoints10 > 0

\* Total rank score (in tenths) of player o in the season table.
RankPointsOf(o) ==
    season.rows[CHOOSE i \in Rows(season.rows) : season.rows[i].Player = o].RankPoints10

\* Every player of the season table has an opponent after the cutoff, and
\* every such opponent has a positive total rank score in the table.
OpponentsRemainAndScore ==
    /\ RoarReturned
    /\ Remaining # <<>>
    /\ \A i \in Rows(season.rows) :
        LET opps == RemainingOf(season.rows[i].Player)
        IN /\ opps # <<>>
           /\ \A k \in Rows(opps) :
                /\ \E j \in Rows(season.rows) : season.rows[j].Player = opps[k].Against
                /\ RankPointsOf(opps[k].Against) > 0

\* C10 as stated: under those conditions every returned value is strictly
\* positive.
C10_AlwaysPositive ==
    OpponentsRemainAndScore =>
        /\ roar.err = "none"
        /\ \A i \in Rows(roar.val) : roar.val[i] > 0

\* C10, amended: under those conditions no value is negative, and a value is
\* strictly positive when the mean of the opponents' (total rank score /
\* cutoff) exceeds 0.005, that is when 20 * (sum of tenths) > cutoff * count.
C10_PositiveAboveHalfCent ==
    OpponentsRemainAndScore =>
        /\ roar.err = "none"
        /\ Len(roar.val) = Len(season.rows)
        /\ \A i \in Rows(roar.val) :
            LET opps == RemainingOf(season.rows[i].Player)
                tenths == SumSeq([k \in Rows(opps) |-> RankPointsOf(opps[k].Against)])
            IN /\ roar.val[i] >= 0
               /\ (20 * tenths > cutoff * Len(opps) => roar.val[i] > 0)

\* A call in which one player's opponents average above 0.005 and another's
\* positive total rank score is rounded away.
C10_Witness ==
    /\ pc = "roar_done"
    /\ OpponentsRemainAndScore
    /\ roar.err = "none"
    /\ \E i, j \in Rows(roar.val) : roar.val[i] = 0 /\ roar.val[j] > 0

\* The week schedule handed to get_matchup_items holds exactly one row per
\* listed player, and the opponent named in it names the player back.
OpponentOf(p) == schedule[CHOOSE i \in Rows(schedule) : schedule[i].Player = p].Against

SymmetricWeek ==
    /\ \A k \in Rows(fig.players) :
        Cardinality({i \in Rows(schedule) : schedule[i].Player = fig.players[k]}) = 1
    /\ \A k \in Rows(fig.players) :
        LET p == fig.players[k]
        IN /\ \E m \in Rows(fig.players) : fig.players[m] = OpponentOf(p)
           /\ OpponentOf(p) # p
           /\ OpponentOf(OpponentOf(p)) = p

\* Position k of the player list is the first appearance of its matchup.
FirstOfPair(k) ==
    \A m \in 1..(k - 1) :
        fig.players[m] \notin {fig.players[k], OpponentOf(fig.players[k])}

\* The number of the matchup of position k, matchups counted in the order of
\* their first appearance in the player list.
PairNumber(k) ==
    LET first == CHOOSE j \in 1..k :
                    /\ FirstOfPair(j)
                    /\ fig.players[j] \in {fig.players[k], OpponentOf(fig.players[k])}
    IN Cardinality({j \in 1..first : FirstOfPair(j)})

Distinct(l) == \A i, j \in Rows(l) : l[i] = l[j] => i = j

PlayerWithoutRow ==
    \E k \in Rows(fig.players) :
        \A i \in Rows(schedule) : schedule[i].Player # fig.players[k]

\* C12: when some player of the list has no row in the week schedule,
\* get_matchup_items raises a lookup error (IndexError) and returns nothing:
\* no list of labels, no default label.
C12_MissingRowRaises ==
    (pc = "items_done" /\ PlayerWithoutRow) =>
        /\ fig.texts.err = "IndexError"
        /\ fig.texts.val = <<>>

\* A call with labels to spare in which the last listed player is the one
\* without a row, the others having been given their labels.
C12_Witness ==
    /\ pc = "items_done"
    /\ Len(fig.numbers) = MaxItems
    /\ \A i \in Rows(schedule) : schedule[i].Player # fig.players[Len(fig.players)]
    /\ \A k \in 1..(Len(fig.players) - 1) :
        \E i \in Rows(schedule) : schedule[i].Player = fig.players[k]
    /\ fig.texts.err = "IndexError"

\* The module-level tables as the start-up script computes them from the two
\* input tables.
StartUpSchedule == melt_schedule(schedule_wide, PLAYERS)

StartUpPoints ==
    LET pdata == melt_points(points_wide, PLAYERS)
    IN weekly_metrics(
          link_points(pdata, determine_points_against(pdata, StartUpSchedule)),
          PLAYERS)

CallIds == DOMAIN calls

\* C13: two invocations of update_season_stats_table with the same week that
\* have returned hold the same table, whatever was invoked in between, and an
\* invocation for the last scored week or later holds the table
\* collect_season_stats returned at start-up for that cutoff.
C13_SameCutoffSameTable ==
    pc = "serving" =>
        \A i, j \in CallIds :
            (calls[i].pc = "done" /\ calls[i].kind = "table") =>
                /\ (calls[j].pc = "done" /\ calls[j].kind = "table"
                        /\ calls[j].week = calls[i].week
                    => calls[i].result = calls[j].result)
                /\ (calls[i].week >= current_week => calls[i].result = season)

\* Two invocations for the same week before the last have returned, and the
\* table holds the players in an order other than the start-up one.
C13_Witness ==
    /\ pc = "serving"
    /\ \E i, j \in CallIds :
        /\ i # j
        /\ calls[i].pc = "done" /\ calls[i].kind = "table"
        /\ calls[j].pc = "done" /\ calls[j].kind = "table"
        /\ calls[i].week = calls[j].week
        /\ calls[i].week < current_week
        /\ calls[i].result.err = "none"
        /\ calls[i].result = calls[j].result
        /\ calls[i].result.rows[1].Player # season.rows[1].Player

\* What an invocation returns when it runs alone on the start-up tables.
AloneResult(c) ==
    IF c.kind = "table"
    THEN collect_season_stats(temp_points_of(StartUpPoints, c.week), StartUpSchedule)
    ELSE IF c.kind = "dist"
    THEN season_dist_plot(temp_points_of(StartUpPoints, c.week), StartUpSchedule, c.col)
    ELSE week_points_fig(StartUpPoints, week_schedule_of(StartUpSchedule, c.week),
                         max_week(StartUpPoints), c.week)

\* C14: while the callbacks run, interleaved in any way, the module-level
\* points and schedule stay what the start-up script made them, and every
\* invocation that has returned holds what it returns when run alone.
C14_CallbacksLeaveTablesAlone ==
    pc = "serving" =>
        /\ points = StartUpPoints
        /\ schedule = StartUpSchedule
        /\ \A i \in CallIds :
            calls[i].pc = "done" => calls[i].result = AloneResult(calls[i])

\* An invocation of update_season_stats_table for the first week is in flight
\* while a distribution plot for the last week has returned on the other
\* worker.
C14_Witness ==
    /\ pc = "serving"
    /\ \E i, j \in CallIds :
        /\ calls[i].pc = "filtered" /\ calls[i].kind = "table" /\ calls[i].week = 1
        /\ calls[j].pc = "done" /\ calls[j].kind = "dist"
        /\ calls[j].week = MaxWeek
        /\ calls[j].result.err = "none"
        /\ Len(calls[j].result.val) = Len(PLAYERS)

\* The invocations that hold an "as of week W" view (their temp_points).
Views == {i \in CallIds : calls[i].pc # "idle" /\ calls[i].kind \in {"table", "dist"}}

\* The rank of row r's points_against among the rows of table t that share
\* its week, doubled.
WeekRankAgainst2(t, r) ==
    LET same == {k \in Rows(t) : t[k].Week = r.Week}
    IN 2 * Cardinality({k \in same : t[k].PointsAgainst < r.PointsAgainst})
        + Cardinality({k \in same : t[k].PointsAgainst = r.PointsAgainst}) + 1

\* C17: in every "as of week W" view a row's rank_against is the rank of its
\* points_against among the rows of its week, and a row that two views share
\* has the same rank and rank_against in both.
C17_RanksIndependentOfCutoff ==
    pc = "serving" =>
        \A i, j \in Views :
            \A a \in Rows(calls[i].temp) : \A b \in Rows(calls[j].temp) :
                LET r == calls[i].temp[a]
                    q == calls[j].temp[b]
                IN /\ r.AgainstRank2 = WeekRankAgainst2(calls[i].temp, r)
                   /\ (r.Week = q.Week /\ r.Player = q.Player) =>
                        /\ r.Rank2 = q.Rank2
                        /\ r.AgainstRank2 = q.AgainstRank2

\* The weekly metrics have been computed, whether or not the season table
\* that follows could be.
MetricsDone == pc \in {"metrics", "serving", "failed"}

\* The opponent of row r is missing, or has no row in the points input for
\* r's week.
NoOpponentScore(r) ==
    \A j \in Rows(points_data) :
        ~(points_data[j].Week = r.Week /\ points_data[j].Player = r.Against)

\* The player columns of the points table are not those of the schedule.
ColumnsDiffer == DOMAIN points_wide[1].pts # PlayerSet

\* C15: when the player columns of the two tables differ, a row whose
\* opponent is missing or has no recorded score is kept, carries a null
\* points_against, carries no definite won / close flag, and leaves the
\* player's season total of points against null rather than a number that
\* counts the null as zero.
C15_NullsSurfaced ==
    /\ (MetricsDone /\ ColumnsDiffer) =>
        /\ \A j \in Rows(points_data) :
            \E i \in Rows(points) :
                points[i].Week = points_data[j].Week
                    /\ points[i].Player = points_data[j].Player
        /\ \A i \in Rows(points) :
            NoOpponentScore(points[i]) =>
                /\ points[i].PointsAgainst = NaN
                /\ points[i].Won \notin BOOLEAN
                /\ points[i].CloseMatch \notin BOOLEAN
                /\ points[i].CloseWin \notin BOOLEAN
                /\ points[i].CloseLoss \notin BOOLEAN
    /\ (pc = "serving" /\ season.err = "none" /\ ColumnsDiffer) =>
        \A k \in Rows(season.rows) :
            (\E i \in Rows(points) :
                /\ points[i].Player = season.rows[k].Player
                /\ points[i].Week <= cutoff
                /\ NoOpponentScore(points[i]))
            => season.rows[k].PointsAgainst = NaN

\* The schedule rows with an empty opponent.
ByeRows == {i \in Rows(schedule) : schedule[i].Against = NoName}

\* C16: the empty cells of the schedule are kept as rows, and with such rows
\* the Points Linker returns its one row per points row, the season table is
\* computed without an exception when a bye lies after the cutoff, and the
\* matchup texts of a week with a bye are computed without an exception.
C16_ByeTolerated ==
    /\ pc # "loaded" => Len(schedule) = Len(schedule_wide) * Len(PLAYERS)
    /\ (MetricsDone \/ pc = "linked") =>
        \A j \in Rows(points_data) :
            Cardinality({i \in Rows(points) :
                            /\ points[i].Week = points_data[j].Week
                            /\ points[i].Player = points_data[j].Player}) = 1
    /\ (pc \in {"serving", "failed"}
            /\ \E i \in ByeRows : schedule[i].Week > cutoff)
        => season.err = "none"
    /\ (fig.week # 0 /\ \E i \in ByeRows : schedule[i].Week = fig.week)
        => fig.err = "none"

\* Every player of the season table has schedule rows after the cutoff, and
\* every opponent named in them has a row in the season table.
OpponentsKnown ==
    /\ RoarReturned
    /\ Remaining # <<>>
    /\ \A i \in Rows(season.rows) :
        LET opps == RemainingOf(season.rows[i].Player)
        IN /\ opps # <<>>
           /\ \A k \in Rows(opps) :
                \E j \in Rows(season.rows) : season.rows[j].Player = opps[k].Against

\* C18: with schedule rows after the cutoff c, the value of player p is the
\* two-decimal rounding of (sum over p's rows after c of the opponent's total
\* rank score / c) / (number of those rows), each row counted: in hundredths,
\* it lies within half a hundredth of that mean.
C18_MeanOfOpponentsPerWeek ==
    OpponentsKnown =>
        /\ roar.err = "none"
        /\ Len(roar.val) = Len(season.rows)
        /\ \A i \in Rows(roar.val) :
            LET opps == RemainingOf(season.rows[i].Player)
                n == Len(opps)
                tenths == SumSeq([k \in Rows(opps) |-> RankPointsOf(opps[k].Against)])
            IN 2 * Abs(roar.val[i] * cutoff * n - 10 * tenths) <= cutoff * n

\* A call in which a player has three rows after the cutoff, two of them
\* against one opponent, the opponents' totals differ and the value is not 0.
C18_Witness ==
    /\ pc = "roar_done"
    /\ OpponentsKnown
    /\ roar.err = "none"
    /\ \E i \in Rows(roar.val) :
        LET opps == RemainingOf(season.rows[i].Player)
        IN /\ Len(opps) = 3
           /\ opps[1].Against = opps[3].Against
           /\ opps[1].Against # opps[2].Against
           /\ RankPointsOf(opps[1].Against) # RankPointsOf(opps[2].Against)
           /\ roar.val[i] > 0

\* C19: for a row with both scores, close_match holds exactly when the
\* margin is at most 10, close_win = won and close_match, close_loss = not
\* won and close_match, never both; in a matchup decided by a margin in
\* (0, 10] the winner has close_win and the loser close_loss.
C19_CloseFlags ==
    HasMetrics =>
        \A i \in Rows(points) :
            (points[i].Points # NaN /\ points[i].PointsAgainst # NaN) =>
                /\ points[i].CloseMatch
                    = (Abs(points[i].Points - points[i].PointsAgainst) <= 10)
                /\ points[i].CloseWin = (points[i].Won /\ points[i].CloseMatch)
                /\ points[i].CloseLoss = (~points[i].Won /\ points[i].CloseMatch)
                /\ ~(points[i].CloseWin /\ points[i].CloseLoss)
                /\ \A j \in Rows(points) :
                    (Paired(i, j)
                        /\ points[i].Points > points[j].Points
                        /\ points[i].Points - points[j].Points <= 10)
                    => (points[i].CloseWin /\ points[j].CloseLoss)

\* A week with a matchup decided by exactly 10 and one decided by more.
C19_Witness ==
    /\ HasMetrics
    /\ \E i, j, k, l \in Rows(points) :
        /\ Paired(i, j) /\ Paired(k, l)
        /\ points[i].Week = points[k].Week
        /\ points[i].Points - points[j].Points = CLOSE_MATCH_DIFF
        /\ points[i].CloseWin /\ points[j].CloseLoss
        /\ points[k].Points - points[l].Points > CLOSE_MATCH_DIFF
        /\ ~points[k].CloseMatch /\ ~points[l].CloseLoss

\* C20: Place is the descending average rank of Total Points: a row's place
\* is the number of rows with a greater total plus the mean of 1..t, t the
\* rows with its total (doubled: 2 g + t + 1), and the places of the P rows
\* sum to P (P + 1) / 2.
C20_PlaceIsAverageRank ==
    (pc = "serving" /\ season.err = "none") =>
        /\ \A i \in Rows(season.rows) :
            LET g == Cardinality({j \in Rows(season.rows) :
                        season.rows[j].TotalPoints10 > season.rows[i].TotalPoints10})
                t == Cardinality({j \in Rows(season.rows) :
                        season.rows[j].TotalPoints10 = season.rows[i].TotalPoints10})
            IN season.rows[i].Place2 = 2 * g + t + 1
        /\ SumSeq([i \in Rows(season.rows) |-> season.rows[i].Place2])
            = Len(season.rows) * (Len(season.rows) + 1)

\* A season table in which two players share a place that is no whole
\* number, behind a player who is alone in first place.
C20_Witness ==
    /\ pc = "serving"
    /\ season.err = "none"
    /\ season.rows[1].Place2 = 2
    /\ \E i, j \in Rows(season.rows) :
        /\ i # j
        /\ season.rows[i].Place2 = season.rows[j].Place2
        /\ season.rows[i].Place2 % 2 = 1

\* The cutoff week of the season table on display: the week of the last
\* callback, the module-level current_week before any callback.
CutoffWeek == IF week = 0 THEN current_week ELSE week

\* The schedule is symmetric up to week w: whoever a player faces, faces them.
SymmetricUpTo(w) ==
    \A i \in Rows(schedule_wide) : schedule_wide[i].Week <= w =>
        \A p \in PlayerSet :
            /\ schedule_wide[i].opp[p] \in PlayerSet \ {p}
            /\ schedule_wide[i].opp[schedule_wide[i].opp[p]] = p

\* Every player has a score in every week 1..w of the points table.
ScoredUpTo(w) ==
    \A v \in 1..w : \E i \in Rows(points_wide) :
        /\ points_wide[i].Week = v
        /\ DOMAIN points_wide[i].pts = PlayerSet
        /\ \A p \in PlayerSet : points_wide[i].pts[p] # NaN

\* The matchups of the weeks up to w, read from the two wide tables: a week
\* and the two players who face each other.
MatchupsUpTo(w) ==
    {<<schedule_wide[i].Week, {p, schedule_wide[i].opp[p]}>> :
        i \in {k \in Rows(schedule_wide) : schedule_wide[k].Week <= w},
        p \in PlayerSet}

\* The score of player p in week v of the wide points table.
WideScore(v, p) ==
    points_wide[CHOOSE i \in Rows(points_wide) : points_wide[i].Week = v].pts[p]

\* A matchup whose two scores differ.
Decided(m) == \E p, q \in m[2] : WideScore(m[1], p) # WideScore(m[1], q)

SeasonWins == SumSeq([i \in Rows(season.rows) |-> season.rows[i].Wins])

\* C21: for every cutoff week W, the schedule symmetric and every player
\* scored in every week up to W, the Wins of the season table sum to the
\* number of matchups of the weeks up to W whose two scores differ (a decided
\* matchup counts once, a tied one not at all), hence to at most W * N / 2.
C21_WinsCountDecidedMatchups ==
    (/\ pc = "serving"
     /\ season.err = "none"
     /\ CutoffWeek >= 1
     /\ SymmetricUpTo(CutoffWeek)
     /\ ScoredUpTo(CutoffWeek)) =>
        /\ SeasonWins = Cardinality({m \in MatchupsUpTo(CutoffWeek) : Decided(m)})
        /\ 2 * SeasonWins <= CutoffWeek * Len(PLAYERS)

\* The callback has cut a two-week season at week 1, where one matchup is
\* tied and the other decided; week 2 holds a decided matchup that is not
\* counted.
C21_Witness ==
    /\ pc = "serving"
    /\ season.err = "none"
    /\ week = 1
    /\ current_week = 2
    /\ SymmetricUpTo(2) /\ ScoredUpTo(2)
    /\ \E m \in MatchupsUpTo(1) : ~Decided(m)
    /\ \E m \in MatchupsUpTo(2) : m[1] = 2 /\ Decided(m)
    /\ SeasonWins = 1

====
